---- MODULE Spec2Model ----
(***************************************************************************)
(* Model of the proxy checker (src/app.js): the validator checkProxy, the  *)
(* in-memory ledger proxyResults and the HTTP handlers that use them.      *)
(*                                                                         *)
(* JavaScript runs the handlers on one thread.  A handler runs until it    *)
(* returns or reaches an await; the continuation of an await on a settled  *)
(* promise is a microtask.  Requests that reach the server together        *)
(* (pipelined on one connection) have their handlers started from the      *)
(* nextTick queue, one after the other, before the microtask queue is      *)
(* drained; once Node drains the microtask queue it runs every pending     *)
(* continuation before it starts another request callback.                 *)
(***************************************************************************)
EXTENDS Integers, Sequences, FiniteSets, TLC

VARIABLES
    proxyResults,   \* app.js:14   the ledger, a sequence of check results
    now,            \* what Date.now() returns (ms), non-decreasing
    microtasks,     \* handlers suspended at an await, in the order of receipt
    draining,       \* the microtask queue is being drained
    lastResponse,   \* the HTTP response sent last, with the request it answers
    sinceBatch,     \* history: the results of the last batch response since the
                    \* last clear, and whether an append followed it
    cp              \* one checkProxy call followed line by line (SpecCheck)

vars == <<proxyResults, now, microtasks, draining, lastResponse, sinceBatch, cp>>

----------------------------------------------------------------------------
(* Bounds of the model *)

MaxClock == 1       \* Date.now() stays within 0..MaxClock
MaxTick == 1        \* the clock advances at most this much between two reads
MaxBatch == 2       \* longest `proxies` array of a request
MaxLedger == 3      \* checks are accepted while the ledger stays this short
MaxSample == 3      \* longest ledger the read handlers are applied to

(* Program constants *)

TimeoutMs == 5000   \* app.js:27

----------------------------------------------------------------------------
(* JavaScript values that cross the API boundary *)

Undefined == [t |-> "undefined"]
Str(s) == [t |-> "string", s |-> s]
Arr(elems) == [t |-> "array", elems |-> elems]

\* ToBoolean, as `!proxy` uses it: undefined and "" are falsy, arrays truthy
Truthy(v) ==
    CASE v.t = "undefined" -> FALSE
      [] v.t = "string" -> v.s # ""
      [] OTHER -> TRUE

IsArray(v) == v.t = "array"

Min(a, b) == IF a <= b THEN a ELSE b

----------------------------------------------------------------------------
(* checkProxy, app.js:21-48 *)

\* the names bound at module scope: the two require()s, app and PORT
ModuleBindingsWithHttp == {"express", "axios", "app", "PORT", "http", "https"}
ModuleBindings == {"express", "axios", "app", "PORT"}

\* what the proxy and the test endpoint would do with a request sent to them
NetOutcomes == {"ok_ip", "ok_noip", "non2xx", "timeout", "neterr"}

EndpointIp == Str("203.0.113.7")

\* axios.get with timeout 5000: resolves on a 2xx answer with the parsed body,
\* rejects on a non-2xx status, on a timeout and on a network error
AxiosGet(net) ==
    CASE net = "ok_ip"   -> [rejected |-> FALSE, ip |-> EndpointIp]
      [] net = "ok_noip" -> [rejected |-> FALSE, ip |-> Undefined]
      [] net = "non2xx"  -> [rejected |-> TRUE,
                             message |-> "Request failed with status code 502"]
      [] net = "timeout" -> [rejected |-> TRUE,
                             message |-> "timeout of 5000ms exceeded"]
      [] OTHER           -> [rejected |-> TRUE,
                             message |-> "connect ECONNREFUSED"]

\* app.js:24-28: the arguments of axios.get are evaluated before the call;
\* `new http.Agent`, `new https.Agent` read identifiers that must be bound,
\* and reading an unbound identifier throws a ReferenceError inside the try
TryBody(net) ==
    IF "http" \notin ModuleBindings
    THEN [rejected |-> TRUE, message |-> "http is not defined"]
    ELSE IF "https" \notin ModuleBindings
    THEN [rejected |-> TRUE, message |-> "https is not defined"]
    ELSE AxiosGet(net)

\* app.js:24-28: how many times one call of checkProxy calls axios.get: once,
\* after its arguments were evaluated, and not at all when that throws; there
\* is no loop around the try
RequestsIssued ==
    IF "http" \in ModuleBindings /\ "https" \in ModuleBindings THEN 1 ELSE 0

\* Date.now() - startTime, app.js:30 and app.js:39
ElapsedSwapped(startTime, endTime) == startTime - endTime
Elapsed(startTime, endTime) == endTime - startTime

\* app.js:31-37
WorkingResult(proxyUrl, ip, startTime, endTime, stamp) ==
    [proxy |-> proxyUrl, status |-> "working", ip |-> ip,
     responseTime |-> Elapsed(startTime, endTime), timestamp |-> stamp]

\* app.js:40-46
FailedResultNoError(proxyUrl, message, startTime, endTime, stamp) ==
    [proxy |-> proxyUrl, status |-> "failed",
     responseTime |-> Elapsed(startTime, endTime), timestamp |-> stamp]
FailedResultTimedOut(proxyUrl, message, startTime, endTime, stamp) ==
    [proxy |-> proxyUrl, status |-> "timeout", error |-> Str(message),
     responseTime |-> Elapsed(startTime, endTime), timestamp |-> stamp]
FailedResult(proxyUrl, message, startTime, endTime, stamp) ==
    [proxy |-> proxyUrl, status |-> "failed", error |-> Str(message),
     responseTime |-> Elapsed(startTime, endTime), timestamp |-> stamp]

\* how a promise settles
Fulfilled(value) == [state |-> "fulfilled", value |-> value]
Rejected(reason) == [state |-> "rejected", reason |-> reason]

\* How the promise of one checkProxy call settles; startTime, endTime and
\* stamp are its three clock reads (app.js:22, app.js:30/39, app.js:36/45).
\* An exception of the try body is caught and turned into a failed result.
checkProxyNeverSettles(proxyUrl, net, startTime, endTime, stamp) ==
    [state |-> "pending"]
checkProxyRethrow(proxyUrl, net, startTime, endTime, stamp) ==
    LET out == TryBody(net)
    IN  IF out.rejected
        THEN Rejected(out.message)
        ELSE Fulfilled(WorkingResult(proxyUrl, out.ip, startTime, endTime, stamp))
checkProxy(proxyUrl, net, startTime, endTime, stamp) ==
    LET out == TryBody(net)
    IN  IF out.rejected
        THEN Fulfilled(FailedResult(proxyUrl, out.message, startTime, endTime, stamp))
        ELSE Fulfilled(WorkingResult(proxyUrl, out.ip, startTime, endTime, stamp))

\* the properties of a result that hold a JavaScript value (the others hold
\* the status word and the two clock values)
JsValued == {"proxy", "ip", "error"}

\* a property of a result object is present when it holds a value other than
\* undefined (what JSON.stringify keeps)
Present(r, f) == f \in DOMAIN r /\ f \in JsValued /\ r[f] # Undefined

\* res.json(obj): JSON.stringify drops the properties whose value is undefined
Json(r) ==
    [f \in {g \in DOMAIN r : g \notin JsValued \/ r[g] # Undefined} |-> r[f]]

JsonAll(rs) == [i \in 1..Len(rs) |-> Json(rs[i])]

----------------------------------------------------------------------------
(* Inputs *)

\* proxy addresses a client sends: the empty string and two addresses
ProxyStrings == {Str(""), Str("a"), Str("b")}

\* the `proxy` property of a POST /api/check-proxy body (Undefined: missing)
ProxyInputs == {Undefined} \cup ProxyStrings

\* the `proxies` property of a POST /api/check-proxies body: missing, a string
\* (not an array), the empty array, and arrays of up to MaxBatch addresses
ProxiesInputs ==
    {Undefined, Str("a")}
    \cup {Arr(e) : e \in UNION {[1..n -> ProxyStrings] : n \in 0..MaxBatch}}

\* what routing a request through each address would do: "a" reaches the test
\* endpoint, "b" times out, the empty address cannot be connected to
ProxyBehaviour(proxyUrl) ==
    CASE proxyUrl = Str("a") -> "ok_ip"
      [] proxyUrl = Str("b") -> "timeout"
      [] OTHER -> "neterr"

\* The clock reads of one synchronous run.  The run makes m reads; the first
\* returns `now`; the clock advances by at most w in total during the run, and
\* c[j] is the read at which it has advanced by j (m + 1: not during the run).
ClockRuns(w, m) ==
    {c \in [1..w -> 2..(m + 1)] : \A j \in 1..(w - 1) : c[j] <= c[j + 1]}

ReadAt(c, k) == now + Cardinality({j \in DOMAIN c : c[j] <= k})

RunBudget == Min(MaxTick, MaxClock - now)

----------------------------------------------------------------------------
(* One checkProxy call, statement by statement (specification SpecCheck) *)

NoResult == [status |-> "none"]

CpIdle == [pc |-> "idle", proxyUrl |-> Undefined, net |-> "neterr",
           startTime |-> 0, endTime |-> 0, requests |-> 0,
           settled |-> Fulfilled(NoResult)]

\* app.js:22  const startTime = Date.now()
CpInvoke(proxyUrl, net) ==
    /\ cp.pc \in {"idle", "returned"}
    /\ cp' = [pc |-> "try", proxyUrl |-> proxyUrl, net |-> net,
              startTime |-> now, endTime |-> 0, requests |-> 0,
              settled |-> Fulfilled(NoResult)]
    /\ UNCHANGED <<proxyResults, now, microtasks, draining, lastResponse, sinceBatch>>

\* app.js:23-47: the try body settles, the clock is read for responseTime and
\* again for the timestamp, and the result is returned
CpReturn ==
    /\ cp.pc = "try"
    /\ \E lag \in 0..RunBudget :
          /\ cp' = [cp EXCEPT !.pc = "returned", !.endTime = now,
                      !.requests = RequestsIssued,
                      !.settled = checkProxy(cp.proxyUrl, cp.net, cp.startTime,
                                             now, now + lag)]
          /\ now' = now + lag
    /\ UNCHANGED <<proxyResults, microtasks, draining, lastResponse, sinceBatch>>

\* time passes
Tick ==
    /\ now < MaxClock
    /\ now' = now + 1
    /\ UNCHANGED <<proxyResults, microtasks, draining, lastResponse, sinceBatch, cp>>

----------------------------------------------------------------------------
(* The ledger, app.js:14 *)

\* proxyResults.push(result), proxyResults.push(...results)
PushAllFront(ledger, results) == results \o ledger
PushFirstOnly(ledger, results) == Append(ledger, Head(results))
PushAllReplacing(ledger, results) == results
PushAllInserted(ledger, results) ==
    IF ledger = <<>> THEN results
    ELSE SubSeq(ledger, 1, Len(ledger) - 1) \o results \o <<ledger[Len(ledger)]>>
PushAll(ledger, results) == ledger \o results

\* proxyResults = []
ClearedButFirst(ledger) == SubSeq(ledger, 1, Min(1, Len(ledger)))
Cleared(ledger) == <<>>

\* r => r.status === 'working', r => r.status === 'failed'
IsFailed(r) == r.status = "failed"
IsNotWorking(r) == r.status # "working"
IsWorking(r) == r.status = "working"

\* Array.prototype.filter keeps the elements that pass, in their order
WorkingOf(ledger) == SelectSeq(ledger, IsWorking)
FailedOf(ledger) == SelectSeq(ledger, IsFailed)

----------------------------------------------------------------------------
(* The HTTP handlers.  A request callback starts only while the microtask   *)
(* queue is not being drained; it may start while other handlers are       *)
(* suspended.                                                              *)

NoBatch == [results |-> <<>>, followed |-> FALSE]

Request(route, body) == [route |-> route, body |-> body]
Response(request, status, body) ==
    [route |-> request.route, request |-> request, status |-> status, body |-> body]

\* checks whose results suspended handlers have still to append
RECURSIVE PendingCount(_)
PendingCount(q) ==
    IF q = <<>> THEN 0 ELSE Len(Head(q).settled) + PendingCount(Tail(q))

\* await p, await Promise.all(ps): the values when every promise fulfilled,
\* otherwise the exception thrown at the await (the first rejection)
AllSettled(settled) == \A i \in 1..Len(settled) : settled[i].state # "pending"
AllFulfilled(settled) == \A i \in 1..Len(settled) : settled[i].state = "fulfilled"
Values(settled) == [i \in 1..Len(settled) |-> settled[i].value]
FirstReason(settled) ==
    settled[CHOOSE i \in 1..Len(settled) :
               /\ settled[i].state = "rejected"
               /\ \A j \in 1..(i - 1) : settled[j].state = "fulfilled"].reason

\* The microtask turns between a handler's await and its continuation, the
\* awaited promises being settled already.  app.js:62 awaits the promise of
\* checkProxy: its continuation is queued at once (one turn).  app.js:82
\* awaits Promise.all: the reactions of the elements are queued at once, the
\* last of them fulfils the promise of Promise.all, and only then is the
\* continuation queued (two turns).
TurnsToResume(request) ==
    IF request.route = "POST /api/check-proxy" THEN 1 ELSE 2

\* the suspended handler whose continuation runs first: the one with the
\* fewest turns to go, the one received first among those
NextToResume(q) ==
    CHOOSE i \in 1..Len(q) :
        \A j \in (1..Len(q)) \ {i} :
            \/ TurnsToResume(q[i].request) < TurnsToResume(q[j].request)
            \/ /\ TurnsToResume(q[i].request) = TurnsToResume(q[j].request)
               /\ i < j

RemoveAt(q, i) == SubSeq(q, 1, i - 1) \o SubSeq(q, i + 1, Len(q))

Room == MaxLedger - Len(proxyResults) - PendingCount(microtasks)

\* app.js:57  if (!proxy)
ProxyRejectedNever(proxy) == FALSE
ProxyRejected(proxy) == ~Truthy(proxy)

\* app.js:77  if (!Array.isArray(proxies) || proxies.length === 0)
ProxiesRejected(proxies) ==
    IF ~IsArray(proxies) THEN TRUE ELSE Len(proxies.elems) = 0

\* app.js:54-59: POST /api/check-proxy, the request fails validation
PostCheckProxyInvalid(proxy) ==
    /\ ~draining
    /\ ProxyRejected(proxy)
    /\ lastResponse' = Response(Request("POST /api/check-proxy", [proxy |-> proxy]), 400,
                                [error |-> "Proxy URL is required"])
    /\ UNCHANGED <<proxyResults, now, microtasks, draining, sinceBatch, cp>>

\* app.js:54-62: POST /api/check-proxy up to its await: checkProxy runs to its
\* return, and the handler is suspended on the promise it returned
PostCheckProxy(proxy) ==
    /\ ~draining
    /\ ~ProxyRejected(proxy)
    /\ Room >= 1
    /\ \E c \in ClockRuns(RunBudget, 3) :
          /\ microtasks' = Append(microtasks,
                [request |-> Request("POST /api/check-proxy", [proxy |-> proxy]),
                 settled |-> <<checkProxy(proxy, ProxyBehaviour(proxy),
                                 ReadAt(c, 1), ReadAt(c, 2), ReadAt(c, 3))>>])
          /\ now' = ReadAt(c, 3)
    /\ UNCHANGED <<proxyResults, draining, lastResponse, sinceBatch, cp>>

\* history: something was appended to the ledger
NoteAppend ==
    sinceBatch' = IF sinceBatch = NoBatch THEN NoBatch
                  ELSE [sinceBatch EXCEPT !.followed = TRUE]

\* app.js:63-67: the continuation: push the result and answer with it, or
\* answer 500 when the await threw
ResumeCheckProxy ==
    /\ microtasks # <<>>
    /\ LET k == NextToResume(microtasks)
           request == microtasks[k].request
           settled == microtasks[k].settled
       IN  /\ request.route = "POST /api/check-proxy"
           /\ AllSettled(settled)
           /\ IF AllFulfilled(settled)
              THEN /\ proxyResults' = PushAll(proxyResults, Values(settled))
                   /\ lastResponse' = Response(request, 200, Json(settled[1].value))
                   /\ NoteAppend
              ELSE /\ lastResponse' = Response(request, 500,
                                               [error |-> "Failed to check proxy",
                                                details |-> FirstReason(settled)])
                   /\ UNCHANGED <<proxyResults, sinceBatch>>
           /\ microtasks' = RemoveAt(microtasks, k)
    /\ draining' = (Len(microtasks) > 1)
    /\ UNCHANGED <<now, cp>>

\* app.js:74-79: POST /api/check-proxies, the request fails validation
PostCheckProxiesInvalid(proxies) ==
    /\ ~draining
    /\ ProxiesRejected(proxies)
    /\ lastResponse' = Response(Request("POST /api/check-proxies", [proxies |-> proxies]), 400,
                                [error |-> "Array of proxy URLs is required"])
    /\ UNCHANGED <<proxyResults, now, microtasks, draining, sinceBatch, cp>>

\* app.js:82  proxies.map(proxy => checkProxy(proxy)): the calls are made in
\* input order, each running to its return; call i makes reads 3i-2..3i
MapCheckProxyReversed(elems, c) ==
    [i \in 1..Len(elems) |->
        checkProxy(elems[Len(elems) + 1 - i], ProxyBehaviour(elems[Len(elems) + 1 - i]),
                   ReadAt(c, 3 * i - 2), ReadAt(c, 3 * i - 1), ReadAt(c, 3 * i))]
MapCheckProxy(elems, c) ==
    [i \in 1..Len(elems) |->
        checkProxy(elems[i], ProxyBehaviour(elems[i]),
                   ReadAt(c, 3 * i - 2), ReadAt(c, 3 * i - 1), ReadAt(c, 3 * i))]

\* app.js:74-82: POST /api/check-proxies up to its await on Promise.all
PostCheckProxies(proxies) ==
    /\ ~draining
    /\ ~ProxiesRejected(proxies)
    /\ Room >= Len(proxies.elems)
    /\ \E c \in ClockRuns(RunBudget, 3 * Len(proxies.elems)) :
          /\ microtasks' = Append(microtasks,
                [request |-> Request("POST /api/check-proxies",
                                      [proxies |-> proxies]),
                 settled |-> MapCheckProxy(proxies.elems, c)])
          /\ now' = ReadAt(c, 3 * Len(proxies.elems))
    /\ UNCHANGED <<proxyResults, draining, lastResponse, sinceBatch, cp>>

\* app.js:84-91: the body of the batch response
BatchBody(results) ==
    [total |-> Len(results),
     results |-> JsonAll(results),
     summary |-> [working |-> Len(WorkingOf(results)),
                  failed |-> Len(FailedOf(results))]]

\* app.js:83-94: the continuation: push the results and answer with them, or
\* answer 500 when the await threw
ResumeCheckProxies ==
    /\ microtasks # <<>>
    /\ LET k == NextToResume(microtasks)
           request == microtasks[k].request
           settled == microtasks[k].settled
       IN  /\ request.route = "POST /api/check-proxies"
           /\ AllSettled(settled)
           /\ IF AllFulfilled(settled)
              THEN /\ proxyResults' = PushAll(proxyResults, Values(settled))
                   /\ lastResponse' = Response(request, 200,
                                               BatchBody(Values(settled)))
                   /\ sinceBatch' = [results |-> BatchBody(Values(settled)).results,
                                     followed |-> FALSE]
              ELSE /\ lastResponse' = Response(request, 500,
                                               [error |-> "Failed to check proxies",
                                                details |-> FirstReason(settled)])
                   /\ UNCHANGED <<proxyResults, sinceBatch>>
           /\ microtasks' = RemoveAt(microtasks, k)
    /\ draining' = (Len(microtasks) > 1)
    /\ UNCHANGED <<now, cp>>

\* app.js:101-106: GET /api/results
GetResults ==
    /\ ~draining
    /\ lastResponse' = Response(Request("GET /api/results", Undefined), 200,
                                [total |-> Len(proxyResults),
                                 results |-> JsonAll(proxyResults)])
    /\ UNCHANGED <<proxyResults, now, microtasks, draining, sinceBatch, cp>>

\* app.js:112-118: GET /api/results/working
GetWorking ==
    /\ ~draining
    /\ LET workingProxies == WorkingOf(proxyResults)
       IN  lastResponse' = Response(Request("GET /api/results/working", Undefined), 200,
                                    [total |-> Len(workingProxies),
                                     results |-> JsonAll(workingProxies)])
    /\ UNCHANGED <<proxyResults, now, microtasks, draining, sinceBatch, cp>>

\* app.js:124-127: DELETE /api/results
DeleteResultsCancelling ==
    /\ ~draining
    /\ proxyResults' = Cleared(proxyResults)
    /\ lastResponse' = Response(Request("DELETE /api/results", Undefined), 200,
                                [message |-> "All results cleared",
                                 timestamp |-> now])
    /\ sinceBatch' = NoBatch
    /\ microtasks' = <<>>
    /\ UNCHANGED <<now, draining, cp>>
DeleteResults ==
    /\ ~draining
    /\ proxyResults' = Cleared(proxyResults)
    /\ lastResponse' = Response(Request("DELETE /api/results", Undefined), 200,
                                [message |-> "All results cleared",
                                 timestamp |-> now])
    /\ sinceBatch' = NoBatch
    /\ UNCHANGED <<now, microtasks, draining, cp>>

\* app.js:153: GET / sends the dashboard page
GetIndex ==
    /\ ~draining
    /\ lastResponse' = Response(Request("GET /", Undefined), 200, [html |-> "Proxy Checker"])
    /\ UNCHANGED <<proxyResults, now, microtasks, draining, sinceBatch, cp>>

\* a request body that express.json() (app.js:10) cannot parse
MalformedJson == [t |-> "malformed"]

\* the routes of the server; express.json() (app.js:10) runs before any of
\* them and parses the body of every request that declares a JSON body,
\* whatever its method
Routes ==
    {"POST /api/check-proxy", "POST /api/check-proxies", "GET /api/results",
     "GET /api/results/working", "DELETE /api/results", "GET /api/stats", "GET /"}

\* app.js:428-431: the error-handling middleware answers a request whose body
\* express.json() failed to parse; no route handler runs
ErrorHandler(route) ==
    /\ ~draining
    /\ lastResponse' = Response(Request(route, MalformedJson), 500,
                                [error |-> "Internal Server Error",
                                 details |-> "Unexpected token '}', \"[}\" is not valid JSON"])
    /\ UNCHANGED <<proxyResults, now, microtasks, draining, sinceBatch, cp>>

\* a JSON number
Num(n) == [t |-> "number", n |-> n]

\* proxyResults.reduce((sum, r) => sum + r.responseTime, 0): the sum of the
\* response times, starting from 0.  The times are integers, so the sum does
\* not depend on how it is grouped; it is taken by halves, which keeps the
\* evaluation of a long ledger shallow.
RECURSIVE SumResponseTime(_)
SumResponseTime(rs) ==
    IF rs = <<>> THEN 0
    ELSE IF Len(rs) = 1 THEN 0 + rs[1].responseTime
    ELSE SumResponseTime(SubSeq(rs, 1, Len(rs) \div 2))
            + SumResponseTime(SubSeq(rs, Len(rs) \div 2 + 1, Len(rs)))

\* A JavaScript number is an IEEE 754 double.  A positive double is kept as
\* the bits m of its significand, the most significant first, without the
\* zeros at its end (at most 53 bits, the first and the last of them 1), and
\* the exponent e of the last of them: its value is m * 2^e.
Zero == [m |-> <<>>, e |-> 0]

\* the natural number a sequence of bits denotes, and the bits of a natural
\* number (none for 0)
RECURSIVE BitsToNat(_)
BitsToNat(bits) ==
    IF bits = <<>> THEN 0
    ELSE 2 * BitsToNat(SubSeq(bits, 1, Len(bits) - 1)) + bits[Len(bits)]

RECURSIVE NatToBits(_)
NatToBits(n) == IF n = 0 THEN <<>> ELSE Append(NatToBits(n \div 2), n % 2)

\* the arithmetic below works on 15 bits at a time, so that no intermediate
\* value exceeds 2^31
LimbBits == 15
LimbBase == 2 ^ LimbBits

\* the bits of n < 2^15, with leading zeros
LimbToBits(n) == [i \in 1..LimbBits |-> (n \div 2 ^ (LimbBits - i)) % 2]

\* a sequence of bits without its leading zeros
StripZeros(bits) ==
    IF \A i \in 1..Len(bits) : bits[i] = 0 THEN <<>>
    ELSE SubSeq(bits,
                CHOOSE i \in 1..Len(bits) :
                    bits[i] = 1 /\ \A j \in 1..(i - 1) : bits[j] = 0,
                Len(bits))

\* x * k + carry on a sequence of bits, k < 2^15: the last 15 bits of x are
\* multiplied first and what exceeds 15 bits is carried
RECURSIVE MulLimbs(_, _, _)
MulLimbs(x, k, carry) ==
    IF x = <<>> THEN NatToBits(carry)
    ELSE LET cut == IF Len(x) > LimbBits THEN Len(x) - LimbBits ELSE 0
             t == BitsToNat(SubSeq(x, cut + 1, Len(x))) * k + carry
         IN  MulLimbs(SubSeq(x, 1, cut), k, t \div LimbBase)
                 \o LimbToBits(t % LimbBase)

MulBits(x, k) == StripZeros(MulLimbs(x, k, 0))

\* bits + 1
Increment(bits) ==
    IF \A i \in 1..Len(bits) : bits[i] = 1
    THEN <<1>> \o [i \in 1..Len(bits) |-> 0]
    ELSE LET z == CHOOSE i \in 1..Len(bits) :
                      bits[i] = 0 /\ \A j \in (i + 1)..Len(bits) : bits[j] = 1
         IN  [i \in 1..Len(bits) |->
                 IF i < z THEN bits[i] ELSE IF i = z THEN 1 ELSE 0]

\* bits * 2^e (bits[1] = 1) without the zeros at the end of bits
Significand(bits, e) ==
    LET last == CHOOSE i \in 1..Len(bits) :
                    bits[i] = 1 /\ \A j \in (i + 1)..Len(bits) : bits[j] = 0
    IN  [m |-> SubSeq(bits, 1, last), e |-> e + (Len(bits) - last)]

\* the double nearest to bits * 2^e (bits[1] = 1), the one with the even
\* significand when two are equally near: the rounding of every arithmetic
\* operation on doubles
RoundToDouble(bits, e) ==
    IF Len(bits) <= 53 THEN Significand(bits, e)
    ELSE LET kept == SubSeq(bits, 1, 53)
             rest == SubSeq(bits, 54, Len(bits))
             up == /\ rest[1] = 1
                   /\ kept[53] = 1 \/ \E i \in 2..Len(rest) : rest[i] = 1
         IN  Significand(IF up THEN Increment(kept) ELSE kept, e + Len(rest))

\* long division, 15 bits at a time (q < 2^16), until it leaves no remainder
\* or has given 54 bits: the leading bits of bits + r / q (bits has no
\* leading zeros), the exponent of the last of them, and the remainder left
RECURSIVE QuotientBits(_, _, _, _)
QuotientBits(bits, r, q, e) ==
    IF r = 0 \/ Len(bits) > 53
    THEN [bits |-> bits, r |-> r, e |-> e]
    ELSE LET limb == LimbToBits((r * LimbBase) \div q)
         IN  QuotientBits(IF bits = <<>> THEN StripZeros(limb) ELSE bits \o limb,
                          (r * LimbBase) % q, q, e - LimbBits)

\* p / q for natural numbers p and q > 0 (a double holds them exactly); a
\* remainder left by the division counts as one more bit behind the quotient
Divide(p, q) ==
    IF p = 0 THEN Zero
    ELSE LET d == QuotientBits(NatToBits(p \div q), p % q, q, 0)
         IN  IF d.r = 0 THEN RoundToDouble(d.bits, d.e)
             ELSE RoundToDouble(Append(d.bits, 1), d.e - 1)

\* x * k for a double x and a natural number k that a double holds exactly
Multiply(x, k) ==
    IF x = Zero THEN Zero ELSE RoundToDouble(MulBits(x.m, k), x.e)

\* the hundredths below 100 * x and the bit behind them, which is 1 when
\* 100 * x lies half a hundredth or more above them (100 * x < 2^31)
HundredthsOf(x) ==
    IF x = Zero THEN [whole |-> 0, half |-> 0]
    ELSE LET bits == MulBits(x.m, 100)
             cut == Len(bits) + x.e
         IN  IF x.e >= 0
             THEN [whole |-> BitsToNat(bits) * 2 ^ x.e, half |-> 0]
             ELSE [whole |-> IF cut > 0 THEN BitsToNat(SubSeq(bits, 1, cut)) ELSE 0,
                   half |-> IF cut >= 0 THEN bits[cut + 1] ELSE 0]

\* the decimal digits of a natural number below 100, as two characters
TwoDigits(n) == IF n < 10 THEN "0" \o ToString(n) ELSE ToString(n)

\* x.toFixed(2) for a double x >= 0: the decimal string of n / 100 for the
\* integer n that makes n / 100 - x closest to zero, the larger n when there
\* are two; x is the double, not the quotient it was computed from
ToFixed2Truncated(x) ==
    LET h == HundredthsOf(x)
        n == h.whole
    IN  ToString(n \div 100) \o "." \o TwoDigits(n % 100)
ToFixed2(x) ==
    LET h == HundredthsOf(x)
        n == h.whole + h.half
    IN  ToString(n \div 100) \o "." \o TwoDigits(n % 100)

\* app.js:136-138: the string of the mean response time, or the number 0
AvgResponseTimeOfWorking(ledger) ==
    IF Len(ledger) > 0
    THEN Str(ToFixed2(Divide(SumResponseTime(WorkingOf(ledger)), Len(ledger))))
    ELSE Num(0)
AvgResponseTime(ledger) ==
    IF Len(ledger) > 0
    THEN Str(ToFixed2(Divide(SumResponseTime(ledger), Len(ledger))))
    ELSE Num(0)

\* app.js:144: the string of the success rate in percent, or the number 0
SuccessRateUnguarded(ledger) ==
    IF Len(ledger) > 0
    THEN Str(ToFixed2(Multiply(Divide(Len(WorkingOf(ledger)), Len(ledger)), 100)))
    ELSE Str("NaN")
SuccessRate(ledger) ==
    IF Len(ledger) > 0
    THEN Str(ToFixed2(Multiply(Divide(Len(WorkingOf(ledger)), Len(ledger)), 100)))
    ELSE Num(0)

\* `${avgResponseTime}ms`: the string, or the digits of the number, then "ms"
WithMs(v) ==
    IF v.t = "number" THEN Str(ToString(v.n) \o "ms") ELSE Str(v.s \o "ms")

StatsBodyClockLeak(ledger, clock) ==
    [totalChecks |-> Len(ledger) + clock,
     working |-> Len(WorkingOf(ledger)),
     failed |-> Len(FailedOf(ledger)),
     successRate |-> SuccessRate(ledger),
     averageResponseTime |-> WithMs(AvgResponseTime(ledger)),
     lastUpdated |-> clock]

\* app.js:140-147: the body of the statistics response
StatsBody(ledger, clock) ==
    [totalChecks |-> Len(ledger),
     working |-> Len(WorkingOf(ledger)),
     failed |-> Len(FailedOf(ledger)),
     successRate |-> SuccessRate(ledger),
     averageResponseTime |-> WithMs(AvgResponseTime(ledger)),
     lastUpdated |-> clock]

\* app.js:133-148: GET /api/stats
GetStats ==
    /\ ~draining
    /\ lastResponse' = Response(Request("GET /api/stats", Undefined), 200, StatsBody(proxyResults, now))
    /\ UNCHANGED <<proxyResults, now, microtasks, draining, sinceBatch, cp>>

----------------------------------------------------------------------------
(* Specifications *)

NoMessage == Response(Request("none", Undefined), 0, Undefined)

ServerInit ==
    /\ proxyResults = <<>>
    /\ now = 0
    /\ microtasks = <<>>
    /\ draining = FALSE
    /\ lastResponse = NoMessage
    /\ sinceBatch = NoBatch

Init == ServerInit /\ cp = CpIdle

Next ==
    \/ \E proxy \in ProxyInputs : PostCheckProxyInvalid(proxy)
    \/ \E proxy \in ProxyInputs : PostCheckProxy(proxy)
    \/ ResumeCheckProxy
    \/ \E proxies \in ProxiesInputs : PostCheckProxiesInvalid(proxies)
    \/ \E proxies \in ProxiesInputs : PostCheckProxies(proxies)
    \/ ResumeCheckProxies
    \/ GetResults
    \/ GetWorking
    \/ GetStats
    \/ DeleteResults
    \/ GetIndex
    \/ \E route \in Routes : ErrorHandler(route)
    \/ Tick

\* the server: requests arrive in any order, time passes
Spec == Init /\ [][Next]_vars

NextCheck ==
    \/ \E proxyUrl \in ProxyStrings, net \in NetOutcomes : CpInvoke(proxyUrl, net)
    \/ CpReturn
    \/ Tick

\* the requests that pass validation and start checks, their continuations,
\* and the clear; the other handlers leave ledger and continuations alone
NextFair ==
    \/ \E proxy \in ProxyInputs : PostCheckProxy(proxy)
    \/ ResumeCheckProxy
    \/ \E proxies \in ProxiesInputs : PostCheckProxies(proxies)
    \/ ResumeCheckProxies
    \/ DeleteResults
    \/ Tick

\* the server with its scheduling: Node runs a pending continuation before
\* anything else, so a continuation that can run does run
SpecFair ==
    /\ Init
    /\ [][NextFair]_vars
    /\ WF_vars(ResumeCheckProxy)
    /\ WF_vars(ResumeCheckProxies)

\* one caller invoking checkProxy again and again, with every address and
\* every behaviour of the network
SpecCheck == Init /\ [][NextCheck]_vars

\* Ledgers of every shape a sequence of check results can take, for the
\* read-only handlers: results as the two return statements of checkProxy
\* build them (app.js:31-37, app.js:40-46)
SampleResults ==
    {WorkingResult(Str("a"), EndpointIp, 0, t, t) : t \in 0..MaxClock}
    \cup {FailedResult(Str("b"), "timeout of 5000ms exceeded", 0, t, t) :
             t \in 0..MaxClock}
    \cup {WorkingResult(Str("a"), EndpointIp, 0, t, t) : t \in {100, 200, 300}}

\* a ledger of n entries, the first w of them working, the first s of them
\* with responseTime 1 and the others with responseTime 0
Ledger(n, w, s) ==
    [i \in 1..n |->
        IF i <= w
        THEN WorkingResult(Str("a"), EndpointIp, 0, IF i <= s THEN 1 ELSE 0, MaxClock)
        ELSE FailedResult(Str("b"), "timeout of 5000ms exceeded", 0,
                          IF i <= s THEN 1 ELSE 0, MaxClock)]

\* ledgers whose mean response time or success rate lies halfway between two
\* hundredths: 1/8, 3/40, 7/40, 100/32 and 2300/160
HalfwayLedgers ==
    {Ledger(8, 0, 1), Ledger(40, 0, 3), Ledger(40, 0, 7),
     Ledger(32, 1, 0), Ledger(160, 23, 0)}

SampleLedgers ==
    UNION {[1..n -> SampleResults] : n \in 0..MaxSample} \cup HalfwayLedgers

InitLedger ==
    /\ proxyResults \in SampleLedgers
    /\ now = MaxClock
    /\ microtasks = <<>>
    /\ draining = FALSE
    /\ lastResponse = NoMessage
    /\ sinceBatch = NoBatch
    /\ cp = CpIdle

NextLedger ==
    \/ GetResults
    \/ GetWorking
    \/ GetStats

\* the read-only handlers applied to a ledger of any content
SpecLedger == InitLedger /\ [][NextLedger]_vars

----------------------------------------------------------------------------
(* Properties *)

Returned == cp.pc = "returned" /\ cp.settled.state = "fulfilled"

IsSuffix(s, t) ==
    /\ Len(s) <= Len(t)
    /\ \A i \in 1..Len(s) : s[i] = t[Len(t) - Len(s) + i]

\* C1: for a non-empty proxy address, the result of checkProxy has exactly
\* one of ip and error: ip exactly when status is working, error exactly when
\* status is failed, whatever the network would have done with the request.
C1_ExactlyOneOfIpError ==
    (cp.pc = "returned" /\ cp.proxyUrl # Str("")) =>
        /\ cp.settled.state = "fulfilled"
        /\ LET r == cp.settled.value
           IN  /\ r.status \in {"working", "failed"}
               /\ Present(r, "ip") # Present(r, "error")
               /\ Present(r, "ip") <=> r.status = "working"
               /\ Present(r, "error") <=> r.status = "failed"

C1_Witness ==
    /\ Returned
    /\ cp.proxyUrl = Str("a")
    /\ cp.net = "ok_noip"
    /\ Present(cp.settled.value, "error")
    /\ ~Present(cp.settled.value, "ip")

\* C2: when the test request completes with a body that holds an IP,
\* checkProxy returns status working and that IP.
C2_SuccessIsWorking ==
    (cp.pc = "returned" /\ cp.net = "ok_ip") =>
        /\ cp.settled.state = "fulfilled"
        /\ cp.settled.value.status = "working"
        /\ Present(cp.settled.value, "ip")
        /\ cp.settled.value.ip = EndpointIp

\* C3: a network error, a timeout, a non-2xx answer and a body without an IP
\* all give a result with status failed and an error description.
C3_FailureIsFailed ==
    (cp.pc = "returned" /\ cp.net \in {"neterr", "timeout", "non2xx", "ok_noip"}) =>
        /\ cp.settled.state = "fulfilled"
        /\ cp.settled.value.status = "failed"
        /\ Present(cp.settled.value, "error")

C3_Witness ==
    /\ Returned
    /\ cp.net = "timeout"
    /\ cp.settled.value.status = "failed"
    /\ cp.startTime < cp.endTime

\* the request bodies that fail input validation, as the API documents them
MissingOrEmpty(v) == v = Undefined \/ v = Str("")
NotANonEmptyArray(v) == v.t # "array" \/ v = Arr(<<>>)

IsCheckRequest(req) ==
    req.route \in {"POST /api/check-proxy", "POST /api/check-proxies"}

Malformed(req) == req.body = MalformedJson

\* the response sent last answers a request for this route whose body, if it
\* had one, express.json() could parse: the handler of the route received it
Handled(route) ==
    lastResponse.route = route /\ ~Malformed(lastResponse.request)
HandledNext(route) ==
    lastResponse'.route = route /\ ~Malformed(lastResponse'.request)

InvalidRequest(req) ==
    /\ IsCheckRequest(req)
    /\ ~Malformed(req)
    /\ IF req.route = "POST /api/check-proxy"
       THEN MissingOrEmpty(req.body.proxy)
       ELSE NotANonEmptyArray(req.body.proxies)

\* kinds of step
ReceiveStep == Len(microtasks') = Len(microtasks) + 1
ResumeStep ==
    /\ Len(microtasks') = Len(microtasks) - 1
    /\ \E k \in 1..Len(microtasks) : microtasks' = RemoveAt(microtasks, k)
Resumed ==
    microtasks[CHOOSE k \in 1..Len(microtasks) : microtasks' = RemoveAt(microtasks, k)]
ClearStep ==
    /\ HandledNext("DELETE /api/results")
    /\ microtasks' = microtasks
    /\ now' = now
AnswerStep == microtasks' = microtasks /\ lastResponse' # lastResponse

\* C4: checkProxy never rejects, so every check request that passes
\* validation is answered 200; a check request is answered otherwise only
\* when it fails validation (400) or its body cannot be parsed (500).
C4_ValidRequestsAnswered200 ==
    /\ \A i \in 1..Len(microtasks) :
          /\ ~InvalidRequest(microtasks[i].request)
          /\ AllFulfilled(microtasks[i].settled)
    /\ IsCheckRequest(lastResponse.request) =>
          lastResponse.status =
              IF Malformed(lastResponse.request) THEN 500
              ELSE IF InvalidRequest(lastResponse.request) THEN 400
              ELSE 200

C4_Witness ==
    /\ microtasks # <<>>
    /\ lastResponse.request = Request("POST /api/check-proxies",
                                      [proxies |-> Arr(<<Str("a")>>)])
    /\ lastResponse.status = 200
    /\ lastResponse.body.summary.failed = 1

\* C5: a request failing validation is answered 400 by a step that starts no
\* check and leaves the ledger and the checks in flight unchanged, whatever
\* other requests are in flight; no handler is ever suspended on such a
\* request.
C5_InvalidRequestRejected ==
    [][/\ (lastResponse' # lastResponse /\ InvalidRequest(lastResponse'.request))
          => /\ lastResponse'.status = 400
             /\ proxyResults' = proxyResults
             /\ microtasks' = microtasks
       /\ ReceiveStep => ~InvalidRequest(microtasks'[Len(microtasks')].request)
      ]_vars

C5_Witness ==
    /\ lastResponse.request =
          Request("POST /api/check-proxies", [proxies |-> Arr(<<>>)])
    /\ lastResponse.status = 400
    /\ Len(proxyResults) = 1
    /\ Len(microtasks) = 1

\* C6: checkProxy is never called with an empty or missing address, and every
\* ledger entry has a non-empty proxy.
C6_NoEmptyProxyChecked ==
    /\ \A i \in 1..Len(microtasks) : \A j \in 1..Len(microtasks[i].settled) :
          ~MissingOrEmpty(microtasks[i].settled[j].value.proxy)
    /\ \A i \in 1..Len(proxyResults) : ~MissingOrEmpty(proxyResults[i].proxy)

\* C7: every result carries a responseTime that is a natural number, the
\* clock value when the outcome was known minus the one read at the start.
C7_ResponseTimeMeasured ==
    cp.pc = "returned" =>
        /\ cp.settled.state = "fulfilled"
        /\ cp.settled.value.responseTime \in Nat
        /\ cp.settled.value.responseTime = cp.endTime - cp.startTime

C7_Witness ==
    /\ Returned
    /\ cp.settled.value.status = "failed"
    /\ cp.settled.value.responseTime > 0

\* C8 as stated: after a batch was appended, any GET /api/results with no
\* clear in between returns a sequence that ends with the batch's results.
C8_BatchIsSuffixUntilClear ==
    (Handled("GET /api/results") /\ sinceBatch # NoBatch) =>
        IsSuffix(sinceBatch.results, lastResponse.body.results)

\* C8 amended: after a batch was appended, a GET /api/results with no clear
\* and no other append in between returns a sequence that ends with the
\* results of the batch response, in the same order.
C8_BatchIsSuffixUntilNextAppend ==
    (/\ Handled("GET /api/results")
     /\ sinceBatch # NoBatch
     /\ ~sinceBatch.followed) =>
        IsSuffix(sinceBatch.results, lastResponse.body.results)

C8_Witness ==
    /\ Handled("GET /api/results")
    /\ Len(sinceBatch.results) = 1
    /\ ~sinceBatch.followed
    /\ lastResponse.body.total = 2
    /\ lastResponse.body.results[1].proxy # lastResponse.body.results[2].proxy
    /\ microtasks = <<>>

\* C9: DELETE /api/results leaves the empty ledger in one step, whatever is
\* in flight; a GET /api/results that follows it with no append in between
\* returns total 0 and no results; and every GET /api/results returns the
\* whole ledger of its moment (the one before the clear or the empty one),
\* never a part of it.
C9_ClearThenReadIsEmpty ==
    /\ [](Handled("DELETE /api/results") => proxyResults = <<>>)
    /\ [](Handled("GET /api/results") =>
             /\ lastResponse.body.results = JsonAll(proxyResults)
             /\ lastResponse.body.total = Len(proxyResults))
    /\ [][/\ ClearStep => proxyResults' = <<>>
          /\ (/\ Handled("DELETE /api/results")
              /\ HandledNext("GET /api/results"))
             => /\ lastResponse'.body.total = 0
                /\ lastResponse'.body.results = <<>>]_vars

C9_Witness ==
    /\ Handled("DELETE /api/results")
    /\ lastResponse.body.timestamp > 0
    /\ microtasks # <<>>
    /\ proxyResults = <<>>

\* the positions of the working entries of a ledger, and the k-th of them
WorkingAt(ledger) == {i \in 1..Len(ledger) : ledger[i].status = "working"}
KthWorking(ledger, k) ==
    CHOOSE i \in WorkingAt(ledger) :
        Cardinality({j \in WorkingAt(ledger) : j <= i}) = k

\* C10: GET /api/results/working returns total = W, the number of working
\* entries of the ledger, and exactly those entries, in ledger order.
C10_WorkingFilter ==
    Handled("GET /api/results/working") =>
        LET W == Cardinality(WorkingAt(proxyResults))
            body == lastResponse.body
        IN  /\ body.total = W
            /\ Len(body.results) = W
            /\ \A k \in 1..W :
                  /\ body.results[k].status = "working"
                  /\ body.results[k] = Json(proxyResults[KthWorking(proxyResults, k)])

C10_Witness ==
    /\ Handled("GET /api/results/working")
    /\ Len(proxyResults) = 3
    /\ lastResponse.body.total = 2
    /\ proxyResults[2].status = "failed"
    /\ lastResponse.body.results[1] # lastResponse.body.results[2]

\* C11 as stated: GET /api/stats on an empty ledger returns totalChecks,
\* successRate and averageResponseTime all equal to the number 0.
C11_EmptyStatsAllZero ==
    (Handled("GET /api/stats") /\ proxyResults = <<>>) =>
        /\ lastResponse.status = 200
        /\ lastResponse.body.totalChecks = 0
        /\ lastResponse.body.successRate = Num(0)
        /\ lastResponse.body.averageResponseTime = Num(0)

\* C11 amended: GET /api/stats on an empty ledger answers 200 with
\* totalChecks = 0, successRate = the number 0 and averageResponseTime = the
\* string "0ms".
C11_EmptyStats ==
    (Handled("GET /api/stats") /\ proxyResults = <<>>) =>
        /\ lastResponse.status = 200
        /\ lastResponse.body.totalChecks = 0
        /\ lastResponse.body.working = 0
        /\ lastResponse.body.failed = 0
        /\ lastResponse.body.successRate = Num(0)
        /\ lastResponse.body.averageResponseTime = Str("0ms")

C11_Witness ==
    /\ Handled("GET /api/stats")
    /\ proxyResults = <<>>
    /\ lastResponse.body.lastUpdated > 0
    /\ lastResponse.body.totalChecks = 0

\* the sum of the response times of a ledger: the number of milliseconds
\* counted entry by entry
TotalTime(ledger) ==
    Cardinality(UNION {{<<i, t>> : t \in 1..ledger[i].responseTime} :
                          i \in 1..Len(ledger)})

\* the decimal notation of n hundredths
Decimal2(n) ==
    ToString(n \div 100) \o "." \o
    (IF n % 100 < 10 THEN "0" ELSE "") \o ToString(n % 100)

\* n hundredths is exactly p / q
IsExactly(n, p, q) == n * q = 100 * p

\* n hundredths is a hundredth nearest to p / q: at most half a hundredth
\* away from it (two hundredths are, when p / q lies halfway between them)
IsRounded(n, p, q) == -q <= 2 * (n * q - 100 * p) /\ 2 * (n * q - 100 * p) <= q

NearHundredths(p, q) == {(100 * p) \div q, (100 * p) \div q + 1}

CountsRight(body, ledger) ==
    /\ body.totalChecks = Len(ledger)
    /\ body.working = Cardinality({i \in 1..Len(ledger) : ledger[i].status = "working"})
    /\ body.failed = Cardinality({i \in 1..Len(ledger) : ledger[i].status = "failed"})

\* C12 as stated: on a non-empty ledger the counts are right, successRate is
\* working / totalChecks * 100 and averageResponseTime is the mean of
\* responseTime over all entries.
C12_StatsExact ==
    (Handled("GET /api/stats") /\ proxyResults # <<>>) =>
        LET body == lastResponse.body
            N == Len(proxyResults)
        IN  /\ CountsRight(body, proxyResults)
            /\ \E n \in NearHundredths(100 * body.working, N) :
                  /\ IsExactly(n, 100 * body.working, N)
                  /\ body.successRate = Str(Decimal2(n))
            /\ \E n \in NearHundredths(TotalTime(proxyResults), N) :
                  /\ IsExactly(n, TotalTime(proxyResults), N)
                  /\ body.averageResponseTime = Str(Decimal2(n) \o "ms")

\* C12 amended: on a non-empty ledger the counts are right, successRate is
\* working / totalChecks * 100 rounded to two decimal places, and
\* averageResponseTime is the mean of responseTime over all entries, working
\* and failed alike, rounded to two decimal places and followed by "ms"; both
\* are decimal strings, and rounded means a nearest hundredth: either of the
\* two when the exact value lies halfway between them.
C12_StatsRounded ==
    (Handled("GET /api/stats") /\ proxyResults # <<>>) =>
        LET body == lastResponse.body
            N == Len(proxyResults)
        IN  /\ CountsRight(body, proxyResults)
            /\ \E n \in NearHundredths(100 * body.working, N) :
                  /\ IsRounded(n, 100 * body.working, N)
                  /\ body.successRate = Str(Decimal2(n))
            /\ \E n \in NearHundredths(TotalTime(proxyResults), N) :
                  /\ IsRounded(n, TotalTime(proxyResults), N)
                  /\ body.averageResponseTime = Str(Decimal2(n) \o "ms")

\* a mean of 3/40 = 0.075 is reported as "0.07ms"
C12_Witness ==
    /\ Handled("GET /api/stats")
    /\ Len(proxyResults) = 40
    /\ TotalTime(proxyResults) = 3
    /\ lastResponse.body.failed = 40
    /\ lastResponse.body.successRate = Str("0.00")
    /\ lastResponse.body.averageResponseTime = Str("0.07ms")

IsPrefix(s, t) == Len(s) <= Len(t) /\ SubSeq(t, 1, Len(s)) = s

CountStatus(results, status) ==
    Cardinality({i \in 1..Len(results) : results[i].status = status})

\* C13: the response to a batch p1..pn has total = n and results[i].proxy =
\* pi for every i, summary.working and summary.failed count the results of
\* each status and sum to n, and the ledger grows by those n results in
\* input order.
C13_BatchKeepsInputOrder ==
    [][(ResumeStep /\ Resumed.request.route = "POST /api/check-proxies") =>
          LET elems == Resumed.request.body.proxies.elems
              body == lastResponse'.body
          IN  /\ lastResponse'.request = Resumed.request
              /\ lastResponse'.status = 200
              /\ body.total = Len(elems)
              /\ Len(body.results) = Len(elems)
              /\ \A i \in 1..Len(elems) : body.results[i].proxy = elems[i]
              /\ body.summary.working = CountStatus(body.results, "working")
              /\ body.summary.failed = CountStatus(body.results, "failed")
              /\ body.summary.working + body.summary.failed = Len(elems)
              /\ Len(proxyResults') = Len(proxyResults) + Len(elems)
              /\ IsPrefix(proxyResults, proxyResults')
              /\ IsSuffix(body.results, JsonAll(proxyResults'))]_vars

C13_Witness ==
    /\ microtasks = <<>>
    /\ lastResponse.request = Request("POST /api/check-proxies",
                                      [proxies |-> Arr(<<Str("b"), Str("a")>>)])
    /\ lastResponse.body.results[1].proxy = Str("b")
    /\ lastResponse.body.results[2].proxy = Str("a")
    /\ Len(proxyResults) = 2
    /\ proxyResults[2].proxy = Str("a")

\* C14: a batch is appended as one unit.  Every step leaves the ledger as it
\* is, clears it, or appends all the results of one request behind the
\* entries already there, whatever other requests are in flight; and every
\* GET /api/results returns the whole ledger of its moment, so no read sees a
\* part of a batch.
C14_BatchAppendedWhole ==
    /\ [][\/ proxyResults' = proxyResults
          \/ ClearStep /\ proxyResults' = <<>>
          \/ /\ ResumeStep
             /\ AllFulfilled(Resumed.settled)
             /\ proxyResults' = proxyResults \o Values(Resumed.settled)]_vars
    /\ [](Handled("GET /api/results") =>
             lastResponse.body.results = JsonAll(proxyResults))

\* a read returns three entries: the two of one batch side by side behind the
\* entry of a request that was received after the batch and appended before it
C14_Witness ==
    /\ Handled("GET /api/results")
    /\ lastResponse.body.total = 3
    /\ sinceBatch # NoBatch
    /\ sinceBatch.results = SubSeq(lastResponse.body.results, 2, 3)
    /\ proxyResults[1].timestamp > proxyResults[2].timestamp

\* the number of addresses a check request asks to check
Requested(req) ==
    IF req.route = "POST /api/check-proxy" THEN 1 ELSE Len(req.body.proxies.elems)

\* C15: no update is lost.  Receiving a valid check request keeps one result
\* per requested address pending and leaves the ledger and the other pending
\* results alone; its continuation appends exactly those results, once,
\* behind the entries appended since the last clear; a clear empties the
\* ledger and keeps the pending results; no other step changes the ledger or
\* the pending results.
C15_NoLostUpdate ==
    [][CASE ReceiveStep ->
              /\ proxyResults' = proxyResults
              /\ SubSeq(microtasks', 1, Len(microtasks)) = microtasks
              /\ LET e == microtasks'[Len(microtasks')]
                 IN  /\ ~InvalidRequest(e.request)
                     /\ Len(e.settled) = Requested(e.request)
         [] ResumeStep ->
              /\ AllFulfilled(Resumed.settled)
              /\ proxyResults' = proxyResults \o Values(Resumed.settled)
         [] ClearStep ->
              /\ proxyResults' = <<>>
              /\ microtasks' = microtasks
         [] OTHER ->
              /\ proxyResults' = proxyResults
              /\ microtasks' = microtasks]_vars

C15_Witness ==
    /\ Len(proxyResults) = 2
    /\ sinceBatch # NoBatch
    /\ sinceBatch.followed
    /\ Handled("POST /api/check-proxy")
    /\ lastResponse.status = 200
    /\ microtasks = <<>>

\* C16: the ledger is append-only between clears: across every step that is
\* not a clear the ledger before is a prefix of the ledger after.
C16_AppendOnly ==
    [][ClearStep \/ IsPrefix(proxyResults, proxyResults')]_vars

C16_Witness ==
    /\ Len(proxyResults) = 2
    /\ Handled("POST /api/check-proxies")
    /\ lastResponse.status = 200
    /\ lastResponse.body.total = 1
    /\ microtasks = <<>>

\* C17: one call of checkProxy issues a single outbound request, and a
\* failed attempt is returned without a second one.
C17_SingleRequest ==
    cp.pc = "returned" =>
        /\ cp.requests = 1
        /\ cp.settled.state = "fulfilled"

\* C18: every check request that passed validation terminates: its checks
\* reach an outcome, and as long as handlers are suspended one of them goes
\* on to append its results and send its response (200), until none is left.
C18_CheckRequestsTerminate ==
    /\ [](\A i \in 1..Len(microtasks) : AllSettled(microtasks[i].settled))
    /\ \A n \in 1..MaxLedger :
          (Len(microtasks) = n) ~>
              (/\ Len(microtasks) = n - 1
               /\ IsCheckRequest(lastResponse.request)
               /\ lastResponse.status = 200
               /\ proxyResults # <<>>)

C18_Witness ==
    /\ Len(microtasks) = 2
    /\ draining = FALSE
    /\ \A i \in 1..2 : AllFulfilled(microtasks[i].settled)
    /\ microtasks[1].request.route = "POST /api/check-proxies"
    /\ microtasks[2].request.route = "POST /api/check-proxy"

\* C19: the ledger order is the order in which the requests append, not the
\* order in which they were received: the continuation that runs appends its
\* results behind every entry already in the ledger, also when its request
\* was received after one that is still suspended.
C19_LedgerInAppendOrder ==
    [][ResumeStep =>
          /\ SubSeq(proxyResults', 1, Len(proxyResults)) = proxyResults
          /\ SubSeq(proxyResults', Len(proxyResults) + 1, Len(proxyResults'))
                = Values(Resumed.settled)]_vars

\* the entry appended first belongs to the request received last
C19_Witness ==
    /\ Len(proxyResults) = 2
    /\ proxyResults[1].timestamp > proxyResults[2].timestamp
    /\ Handled("POST /api/check-proxies")
    /\ lastResponse.status = 200
    /\ microtasks = <<>>

ReadRoutes == {"GET /api/results", "GET /api/results/working", "GET /api/stats"}
ReadStep == AnswerStep /\ lastResponse'.route \in ReadRoutes
StatsFields == {"totalChecks", "working", "failed", "successRate", "averageResponseTime"}

\* C20: the read handlers and the validator do not write shared state: a
\* GET /api/results, GET /api/results/working or GET /api/stats leaves the
\* ledger (and the pending continuations) as they were, the checkProxy calls
\* of a request leave the ledger as it was, and a GET /api/stats answered
\* after another with no ledger mutation in between returns the same value in
\* every field except lastUpdated.
C20_ReadsAndValidatorWriteNothing ==
    [][/\ ReadStep => proxyResults' = proxyResults /\ microtasks' = microtasks
       /\ ReceiveStep => proxyResults' = proxyResults
       /\ (/\ Handled("GET /api/stats")
           /\ HandledNext("GET /api/stats")
           /\ proxyResults' = proxyResults)
          => \A f \in StatsFields : lastResponse'.body[f] = lastResponse.body[f]
      ]_vars

C20_Witness ==
    /\ Handled("GET /api/stats")
    /\ lastResponse.body.lastUpdated < now
    /\ lastResponse.body.totalChecks = 1
    /\ Len(proxyResults) = 1
    /\ microtasks # <<>>

\* C21: in every reachable state each ledger entry has status working or
\* failed, so every GET /api/stats response has working + failed =
\* totalChecks, and every GET /api/results response has total = the length of
\* its results.
C21_StatusPartition ==
    /\ \A i \in 1..Len(proxyResults) :
          proxyResults[i].status \in {"working", "failed"}
    /\ Handled("GET /api/stats") =>
          lastResponse.body.working + lastResponse.body.failed
              = lastResponse.body.totalChecks
    /\ Handled("GET /api/results") =>
          lastResponse.body.total = Len(lastResponse.body.results)

C21_Witness ==
    /\ Handled("GET /api/stats")
    /\ lastResponse.body.totalChecks = 2
    /\ lastResponse.body.failed = 2
    /\ Len(proxyResults) = 2
    /\ proxyResults[1].timestamp > proxyResults[2].timestamp

\* C22: a clear does not cancel checks in flight: DELETE /api/results leaves
\* the suspended handlers as they are, and the continuation of a handler
\* appends all of its results to the ledger as it then is, the cleared one
\* included, and reports all of them in its response.
C22_ClearKeepsChecksInFlight ==
    [][/\ ClearStep => microtasks' = microtasks
       /\ ResumeStep =>
             LET resumed == Resumed
             IN  /\ proxyResults' = proxyResults \o Values(resumed.settled)
                 /\ lastResponse'.request = resumed.request
                 /\ lastResponse'.status = 200
                 /\ lastResponse'.body =
                       IF resumed.request.route = "POST /api/check-proxy"
                       THEN Json(resumed.settled[1].value)
                       ELSE BatchBody(Values(resumed.settled))
                 /\ Len(resumed.settled) = Requested(resumed.request)]_vars

\* the clear was answered after every request in flight was received
C22_Witness ==
    /\ Handled("DELETE /api/results")
    /\ microtasks # <<>>
    /\ \A i \in 1..Len(microtasks) : \A j \in 1..Len(microtasks[i].settled) :
          microtasks[i].settled[j].value.timestamp < lastResponse.body.timestamp

====
